---- MODULE Spec2Model ----
(***************************************************************************)
(* A model of the BloomFilter class of BloomFilterHW.py.                   *)
(*                                                                         *)
(* The state is one BloomFilter instance (its private attributes), the     *)
(* BitHash function it imports, and a record of the last call made on the  *)
(* instance (which method, with which key, what it returned and which bit  *)
(* positions it touched).  Init is every state __init__ can leave behind   *)
(* for a valid configuration; each public method is one action.            *)
(*                                                                         *)
(* Real numbers are exact rationals <<numerator, denominator>> with a      *)
(* positive denominator.                                                   *)
(***************************************************************************)
EXTENDS Integers, Sequences, FiniteSets

\* ------------------------------------------------------------- bounds

\* numKeys is drawn from 1..MaxNumKeys
MaxNumKeys == 2

\* numHashes is drawn from 1..MaxNumHashes
MaxNumHashes == 3

\* BitHash returns a value in 0..MaxHash
MaxHash == 2

\* at most MaxInserts calls of insert are explored
MaxInserts == 3

\* the keys handed to insert and find
Keys == {"a", "b"}

\* the argument recorded for a call that takes no key
NoKey == "-"

\* ------------------------------------------------------------- arithmetic

RECURSIVE Pow(_, _)
\* b ** e for a natural exponent e
Pow(b, e) == IF e = 0 THEN 1 ELSE b * Pow(b, e - 1)

\* x ** (1 / d) rounded up: the least a with a ** d >= x; exact when IsPower(x, d)
Root(x, d) == CHOOSE a \in 0..x : Pow(a, d) >= x /\ (a = 0 \/ Pow(a - 1, d) < x)

\* x is the d-th power of a natural number
IsPower(x, d) == Pow(Root(x, d), d) = x

\* p ** e for a rational p
RatPow(p, e) == <<Pow(p[1], e), Pow(p[2], e)>>

\* p ** (1 / d) for a rational p in lowest terms whose root is rational
RatRoot(p, d) == <<Root(p[1], d), Root(p[2], d)>>

\* p has a rational d-th root
HasRatRoot(p, d) == IsPower(p[1], d) /\ IsPower(p[2], d)

\* ------------------------------------------------------------- sizing

\* __bitsNeeded: int(numHashes / (1 - bitsStillZero ** (1 / numKeys))) with
\* bitsStillZero = 1 - maxFalsePositive ** (1 / numHashes).
\* The first root is taken exactly (the configurations explored have a
\* rational one).  The second need not be rational, so the truncated quotient
\* is found as the largest m with numHashes / (1 - z ** (1/n)) >= m, that is
\* m <= numHashes or z >= ((m - numHashes) / m) ** n, in integers
\* z[1] * m ** n >= z[2] * (m - numHashes) ** n.  Because 1 - z ** (1/n) is at
\* least (1 - z) / n, the quotient is at most numHashes * n / (1 - z).
bitsNeeded(nKeys, nHashes, maxFP) ==
    LET root == RatRoot(maxFP, nHashes)
        bitsStillZero == <<root[2] - root[1], root[2]>>
        limit == ((nHashes * nKeys * root[2]) \div root[1]) + 1
        AtLeast(m) == \/ m <= nHashes
                      \/ bitsStillZero[1] * Pow(m, nKeys)
                            >= bitsStillZero[2] * Pow(m - nHashes, nKeys)
    IN  CHOOSE m \in 1..limit : AtLeast(m) /\ ~AtLeast(m + 1)

\* the values of maxFalsePositive ** (1 / numHashes) explored
FalsePositiveRoots == {<<1, 2>>, <<8, 9>>}

\* the values of maxFalsePositive explored, each strictly between 0 and 1
FalsePositives == {RatPow(r, d) : r \in FalsePositiveRoots, d \in 1..MaxNumHashes}

\* the constructor arguments explored: numKeys > 0, numHashes >= 1,
\* 0 < maxFalsePositive < 1
Configs ==
    {c \in [numKeys : 1..MaxNumKeys, numHashes : 1..MaxNumHashes,
            maxFalsePositive : FalsePositives] :
        HasRatRoot(c.maxFalsePositive, c.numHashes)}

\* ------------------------------------------------------------- state

VARIABLES
    numKeys,            \* self.__numKeys
    numHashes,          \* self.__numHashes
    maxFalsePositive,   \* self.__maxFalsePositive
    numBits,            \* self.__numBits
    bitVector,          \* self.__bitVector, indexed 0..numBits-1
    bitsSet,            \* self.__bitsSet
    hash,               \* BitHash, on the (key, seed) pairs the filter hashes
    op,                 \* the method called last ("new" after construction)
    arg,                \* its key argument
    found,              \* what find returned, when op = "find"
    count,              \* what numBitsSet returned, when op = "numBitsSet"
    rate,               \* what falsePositiveRate returned
    probes,             \* the bit positions the last insert wrote / find read
    inserted,           \* the keys insert has been called with
    nInserts            \* the number of insert calls made

config == <<numKeys, numHashes, maxFalsePositive, numBits>>
filter == <<bitVector, bitsSet>>
lastCall == <<op, arg, found, count, rate, probes>>
history == <<inserted, nInserts>>
vars == <<config, filter, hash, lastCall, history>>

\* the seeds of the loops of insert and find: range(1, numHashes)
SeedsOf(nHashes) == {i \in 1..nHashes : i < nHashes}

\* BitVector(size = n): n bits, all 0
NewBitVector(n) == [i \in 0..(n - 1) |-> 0]

\* the state __init__ leaves, for some valid arguments and some hash function
Init ==
    \E c \in Configs :
        /\ numKeys = c.numKeys
        /\ numHashes = c.numHashes
        /\ maxFalsePositive = c.maxFalsePositive
        /\ numBits = bitsNeeded(c.numKeys, c.numHashes, c.maxFalsePositive)
        /\ bitVector = NewBitVector(bitsNeeded(c.numKeys, c.numHashes, c.maxFalsePositive))
        /\ bitsSet = 0
        /\ hash \in [Keys \X SeedsOf(c.numHashes) -> 0..MaxHash]
        /\ op = "new"
        /\ arg = NoKey
        /\ found = FALSE
        /\ count = 0
        /\ rate = <<0, 1>>
        /\ probes = <<>>
        /\ inserted = {}
        /\ nInserts = 0

\* BitHash(key, i)
BitHash(key, i) == hash[<<key, i>>]

\* ------------------------------------------------------------- insert

\* insert deriving its position differently from find: (BitHash(key, i) + 1) % numBits
InsertIndexShifted(key, i) == (hash[<<key, i>>] + 1) % numBits

\* line 46: a = BitHash(key, i) % self.__numBits
InsertIndex(key, i) == BitHash(key, i) % numBits

RECURSIVE InsertLoopCountDistinct(_, _, _)
\* insert counting a write only when the bit was still 0
InsertLoopCountDistinct(key, i, st) ==
    IF i >= numHashes THEN st
    ELSE LET a == InsertIndex(key, i)
         IN  InsertLoopCountDistinct(key, i + 1,
                 [bits |-> [st.bits EXCEPT ![a] = 1],
                  bitsSet |-> IF st.bits[a] = 0 THEN st.bitsSet + 1 ELSE st.bitsSet,
                  written |-> Append(st.written, a)])

RECURSIVE InsertLoopToggle(_, _, _)
\* insert flipping the bit instead of setting it
InsertLoopToggle(key, i, st) ==
    IF i >= numHashes THEN st
    ELSE LET a == InsertIndex(key, i)
         IN  InsertLoopToggle(key, i + 1,
                 [bits |-> [st.bits EXCEPT ![a] = 1 - @],
                  bitsSet |-> st.bitsSet + 1,
                  written |-> Append(st.written, a)])

RECURSIVE InsertLoop(_, _, _)
\* the loop of insert from seed i on; st is the bit vector, the counter and
\* the positions written so far
InsertLoop(key, i, st) ==
    IF i >= numHashes THEN st
    ELSE LET a == InsertIndex(key, i)
         IN  InsertLoop(key, i + 1,
                 [bits |-> [st.bits EXCEPT ![a] = 1],
                  bitsSet |-> st.bitsSet + 1,
                  written |-> Append(st.written, a)])

\* insert(key)
Insert(key) ==
    /\ nInserts < MaxInserts
    /\ LET st == InsertLoop(key, 1,
                     [bits |-> bitVector, bitsSet |-> bitsSet, written |-> <<>>])
       IN  /\ bitVector' = st.bits
           /\ bitsSet' = st.bitsSet
           /\ probes' = st.written
    /\ op' = "insert"
    /\ arg' = key
    /\ found' = FALSE
    /\ count' = 0
    /\ rate' = <<0, 1>>
    /\ inserted' = inserted \cup {key}
    /\ nInserts' = nInserts + 1
    /\ UNCHANGED <<config, hash>>

\* ------------------------------------------------------------- find

\* line 56: a = BitHash(key, i) % self.__numBits
FindIndex(key, i) == BitHash(key, i) % numBits

RECURSIVE FindLoopAny(_, _, _)
\* find answering True at the first bit that is set
FindLoopAny(key, i, read) ==
    IF i >= numHashes THEN [ret |-> FALSE, read |-> read]
    ELSE LET a == FindIndex(key, i)
         IN  IF bitVector[a] = 1
             THEN [ret |-> TRUE, read |-> Append(read, a)]
             ELSE FindLoopAny(key, i + 1, Append(read, a))

RECURSIVE FindLoop(_, _, _)
\* the loop of find from seed i on; read is the positions read so far
FindLoop(key, i, read) ==
    IF i >= numHashes THEN [ret |-> TRUE, read |-> read]
    ELSE LET a == FindIndex(key, i)
         IN  IF bitVector[a] = 0
             THEN [ret |-> FALSE, read |-> Append(read, a)]
             ELSE FindLoop(key, i + 1, Append(read, a))

\* find(key)
Find(key) ==
    /\ LET r == FindLoop(key, 1, <<>>)
       IN  /\ found' = r.ret
           /\ probes' = r.read
    /\ op' = "find"
    /\ arg' = key
    /\ count' = 0
    /\ rate' = <<0, 1>>
    /\ UNCHANGED <<config, filter, hash, history>>

\* ------------------------------------------------------------- statistics

\* numBitsSet(): return self.__bitsSet
numBitsSet == bitsSet

\* falsePositiveRate() raising the zero fraction itself to the power
falsePositiveRateOfZeros ==
    LET bitsStillZero == <<numBits - numBitsSet, numBits>>
    IN  RatPow(bitsStillZero, numHashes)

\* falsePositiveRate()
falsePositiveRate ==
    LET bitsStillZero == <<numBits - numBitsSet, numBits>>
        filled == <<bitsStillZero[2] - bitsStillZero[1], bitsStillZero[2]>>
    IN  RatPow(filled, numHashes)

\* the bits of the vector that are 1
OnesOf(bv) == {i \in DOMAIN bv : bv[i] = 1}

\* numBitsSet() recounting the vector and storing the result in the counter
NumBitsSetRecount ==
    /\ bitsSet' = Cardinality(OnesOf(bitVector))
    /\ count' = Cardinality(OnesOf(bitVector))
    /\ op' = "numBitsSet"
    /\ arg' = NoKey
    /\ found' = FALSE
    /\ rate' = <<0, 1>>
    /\ probes' = <<>>
    /\ UNCHANGED <<config, bitVector, hash, history>>

\* a call of numBitsSet()
NumBitsSetCall ==
    /\ count' = numBitsSet
    /\ op' = "numBitsSet"
    /\ arg' = NoKey
    /\ found' = FALSE
    /\ rate' = <<0, 1>>
    /\ probes' = <<>>
    /\ UNCHANGED <<config, filter, hash, history>>

\* a call of falsePositiveRate()
FalsePositiveRateCall ==
    /\ rate' = falsePositiveRate
    /\ op' = "falsePositiveRate"
    /\ arg' = NoKey
    /\ found' = FALSE
    /\ count' = 0
    /\ probes' = <<>>
    /\ UNCHANGED <<config, filter, hash, history>>

\* ------------------------------------------------------------- specification

InsertSome == \E key \in Keys : Insert(key)
FindSome == \E key \in Keys : Find(key)

Next ==
    \/ InsertSome
    \/ FindSome
    \/ NumBitsSetCall
    \/ FalsePositiveRateCall

Spec == Init /\ [][Next]_vars

TypeOK ==
    /\ numKeys \in 1..MaxNumKeys
    /\ numHashes \in 1..MaxNumHashes
    /\ numBits >= numHashes
    /\ bitVector \in [0..(numBits - 1) -> {0, 1}]
    /\ bitsSet \in Nat
    /\ op \in {"new", "insert", "find", "numBitsSet", "falsePositiveRate"}
    /\ arg \in Keys \cup {NoKey}
    /\ found \in BOOLEAN
    /\ inserted \subseteq Keys
    /\ nInserts \in 0..MaxInserts

\* ------------------------------------------------------------- properties

\* the positions insert(key) writes, found by running its loop on an empty vector
InsertPositions(key) ==
    OnesOf(InsertLoop(key, 1,
        [bits |-> NewBitVector(numBits), bitsSet |-> 0, written |-> <<>>]).bits)

\* the elements of a sequence
Range(seq) == {seq[i] : i \in 1..Len(seq)}

Queries == {"find", "numBitsSet", "falsePositiveRate"}

\* C1: once insert(k) has been called, every later find(k) returns True,
\* whatever calls came in between.
NoFalseNegatives == (op = "find" /\ arg \in inserted) => found = TRUE

\* an inserted key is looked up after a later insert of the other key, in a
\* filter whose insert writes bits
NoFalseNegativesWitness ==
    /\ op = "find"
    /\ arg \in inserted
    /\ found = TRUE
    /\ inserted = Keys
    /\ numHashes >= 2
    /\ Len(probes) = numHashes - 1

BitsNeverCleared ==
    /\ [](op = "new" => \A i \in DOMAIN bitVector : bitVector[i] = 0)
    /\ [][\A i \in DOMAIN bitVector : bitVector[i] = 1 => bitVector'[i] = 1]_vars

\* an insert has written a position a second time and the bit is still 1
BitsNeverClearedWitness ==
    /\ op = "insert"
    /\ nInserts >= 2
    /\ Cardinality(Range(probes)) < Len(probes) \/ nInserts > Cardinality(inserted)
    /\ probes # <<>>
    /\ \A p \in Range(probes) : bitVector[p] = 1

\* C4: insert(key) writes numHashes positions and a find(key) that returns
\* True has inspected numHashes positions.
UsesNumHashesPositions ==
    /\ op = "insert" => Len(probes) = numHashes
    /\ (op = "find" /\ found) => Len(probes) = numHashes

\* C5: numBitsSet() equals the number of bits of the vector that are 1.
CountIsBitsActuallySet == numBitsSet = Cardinality(OnesOf(bitVector))

\* C6: on a filter nothing was inserted into, numBitsSet() returns 0 and
\* falsePositiveRate() returns 0.
FreshFilterStatistics ==
    /\ (nInserts = 0 /\ op = "numBitsSet") => count = 0
    /\ (nInserts = 0 /\ op = "falsePositiveRate") => (rate[1] = 0 /\ rate[2] > 0)

\* falsePositiveRate() has been called on a filter nothing was inserted into
FreshFilterStatisticsWitness ==
    /\ nInserts = 0
    /\ op = "falsePositiveRate"
    /\ numHashes >= 2
    /\ rate[2] = Pow(numBits, numHashes)

\* C7: find, numBitsSet and falsePositiveRate leave the bit vector, the
\* counter and the configuration as they were; no step changes the
\* configuration, and only insert changes the bit vector or the counter.
QueriesDoNotMutate ==
    [][/\ op' \in Queries => (bitVector' = bitVector /\ bitsSet' = bitsSet)
       /\ config' = config
       /\ (bitVector' # bitVector \/ bitsSet' # bitsSet) => op' = "insert"]_vars

\* a find has stopped at a 0 bit of a filter that holds keys and whose counter
\* overcounts
QueriesDoNotMutateWitness ==
    /\ op = "find"
    /\ found = FALSE
    /\ nInserts >= 2
    /\ bitsSet > Cardinality(OnesOf(bitVector))
    /\ Len(probes) >= 1

\* C8: find(key) returns True exactly when every position insert(key) writes
\* holds a 1, and reads only positions insert(key) writes, all of them in
\* 0..numBits-1.
FindMatchesInsert ==
    op = "find" =>
        /\ found <=> \A p \in InsertPositions(arg) : bitVector[p] = 1
        /\ Range(probes) \subseteq InsertPositions(arg)
        /\ Range(probes) \subseteq 0..(numBits - 1)

\* a false positive: find returns True for a key never inserted, whose hash
\* value was reduced modulo numBits onto a bit another key's insert set
FindMatchesInsertWitness ==
    /\ op = "find"
    /\ found = TRUE
    /\ arg \notin inserted
    /\ numHashes >= 2
    /\ Len(probes) = numHashes - 1
    /\ \E i \in SeedsOf(numHashes) : BitHash(arg, i) >= numBits

\* C9: numBitsSet() never exceeds numBits, so falsePositiveRate() stays
\* within 0 and 1.
CountWithinBits ==
    /\ numBitsSet <= numBits
    /\ op = "falsePositiveRate" => (0 <= rate[1] /\ rate[1] <= rate[2])

\* C10: on a filter nothing was inserted into, find returns False for every
\* key.
EmptyFilterFindsNothing == (nInserts = 0 /\ op = "find") => found = FALSE

====
